---------------------------- MODULE Spec2Model ----------------------------
(***************************************************************************)
(* A model of the chat frontend of jameswagner/chatgenius: the Socket.IO   *)
(* wrapper (services/socket.ts), the Axios client's response interceptors  *)
(* (services/api.ts), the ChatLayout component in its two versions         *)
(* (components/Chat/ChannelBrowser.tsx and components/Chat/ChatLayout.tsx),*)
(* MessageList's thread grouping and refresh handlers                      *)
(* (components/Chat/ThreadView.tsx) and MessageInput.                      *)
(***************************************************************************)
EXTENDS Integers, Sequences, FiniteSets, TLC

VARIABLES
    localStorage,      \* the browser's localStorage: the keys the frontend uses
    svc,               \* the SocketService singleton and every socket it created
    last,              \* the last SocketService call or socket event, with the callbacks it invoked
    mounted,           \* the component that is mounted ("none" before any is)
    currentChannel,    \* ChatLayout state
    messages,          \* ChatLayout state
    channels,          \* ChatLayout state: lastRead of every channel entry
    isLoadingChannel,  \* ChatLayout state
    pending,           \* async handlers suspended at an await, with their closures
    wire,              \* 'message.new' events the server has sent, not yet delivered
    server,            \* the backend's message store, per channel
    consoleErrors,     \* what console.error has logged
    unhandled,         \* handlers whose promise ended rejected with nobody to catch it
    input,             \* MessageInput state: message text and attached files
    sent,              \* handleSendMessage calls made and api.messages.create calls issued
    expandedThreads,   \* MessageList state
    budget,            \* user and environment steps the run may still start
    threadGroups,      \* MessageList: the thread groups of the last render
    http,              \* one request of the Axios client, through the interceptors
    route,             \* the router's location
    sidebar            \* Sidebar state: the create-channel form, the selected workspace

vars == << localStorage, svc, last, mounted, currentChannel, messages, channels,
           isLoadingChannel, pending, wire, server, consoleErrors, unhandled,
           input, sent, expandedThreads, budget, threadGroups, http, route, sidebar >>

socketVars == << localStorage, svc, last >>
layoutVars == << mounted, currentChannel, messages, channels, isLoadingChannel,
                 pending, wire, server, consoleErrors, unhandled, input, sent,
                 expandedThreads, budget >>
pageVars   == << route, sidebar >>
otherVars  == << threadGroups, http, pageVars >>

-----------------------------------------------------------------------------
(* Values *)

Null      == "null"          \* JavaScript null / undefined / absent key
Channels  == {"A", "B"}
Events    == {"message.new", "message.update", "channel.new"}
Callbacks == {"cb1", "cb2"}  \* the function objects a caller may pass

\* Bounds of the model
MaxSize == 3   \* sockets created + listeners registered + emits made, in one run


-----------------------------------------------------------------------------
(* socket.io-client's Socket, as SocketService uses it *)

\* io(WS_URL, ...): a new socket, opening its transport
NewSocket == [ status    |-> "connecting",
               listeners |-> << >>,     \* [ev, fn, wrapped] in registration order
               emitted   |-> << >>,     \* << event, argument >> in emit order
               dropAt    |-> -1 ]       \* Len(emitted) when the transport last dropped

\* socket.on(ev, fn)
socketOn(sock, ev, fn, wrapped) ==
    [sock EXCEPT !.listeners = Append(@, [ev |-> ev, fn |-> fn, wrapped |-> wrapped])]

\* socket.off(ev): every listener of ev goes
socketOffAll(sock, ev) ==
    [sock EXCEPT !.listeners = SelectSeq(@, LAMBDA l : l.ev # ev)]

\* socket.off(ev, fn): the first listener of ev that is the function fn goes.
\* A wrapper registered by SocketService.on is another function than the
\* callback it wraps.
socketOff(sock, ev, fn) ==
    LET ls  == sock.listeners
        hit == { i \in 1..Len(ls) : ls[i].ev = ev /\ ls[i].fn = fn /\ ~ls[i].wrapped }
    IN  IF hit = {} THEN sock
        ELSE LET k == CHOOSE i \in hit : \A j \in hit : i <= j
             IN  [sock EXCEPT !.listeners =
                     SubSeq(ls, 1, k - 1) \o SubSeq(ls, k + 1, Len(ls))]

\* socket.emit(ev, arg)
socketEmit(sock, ev, arg) ==
    [sock EXCEPT !.emitted = Append(@, << ev, arg >>)]

\* socket.disconnect()
socketDisconnect(sock) == [sock EXCEPT !.status = "closed"]

-----------------------------------------------------------------------------
(* SocketService (services/socket.ts).  s is the service: s.socket is the  *)
(* index in s.socks of the socket it holds, 0 for null.                    *)

NoSocket(s) == s.socket = 0

Held(s) == s.socks[s.socket]

WithHeld(s, sock) == [s EXCEPT !.socks[s.socket] = sock]

\* connect() without its token check
connectWithoutToken(s, ls) ==
    IF ~NoSocket(s) /\ Held(s).status = "connected" THEN s
    ELSE [ socket |-> Len(s.socks) + 1, socks |-> Append(s.socks, NewSocket) ]

connect(s, ls) ==
    IF ~NoSocket(s) /\ Held(s).status = "connected" THEN s
    ELSE IF ls.token = Null THEN s
    ELSE [ socket |-> Len(s.socks) + 1, socks |-> Append(s.socks, NewSocket) ]

disconnect(s) ==
    IF NoSocket(s) THEN s
    ELSE [ WithHeld(s, socketDisconnect(Held(s))) EXCEPT !.socket = 0 ]

joinChannel(s, channelId) ==
    IF NoSocket(s) THEN s ELSE WithHeld(s, socketEmit(Held(s), "channel.join", channelId))

leaveChannel(s, channelId) ==
    IF NoSocket(s) THEN s ELSE WithHeld(s, socketEmit(Held(s), "channel.leave", channelId))

onNewMessage(s, callback) ==
    IF NoSocket(s) THEN s ELSE WithHeld(s, socketOn(Held(s), "message.new", callback, FALSE))

offNewMessage(s, callback) ==
    IF NoSocket(s) THEN s ELSE WithHeld(s, socketOff(Held(s), "message.new", callback))

onMessageUpdate(s, callback) ==
    IF NoSocket(s) THEN s ELSE WithHeld(s, socketOn(Held(s), "message.update", callback, FALSE))

offMessageUpdate(s, callback) ==
    IF NoSocket(s) THEN s ELSE WithHeld(s, socketOff(Held(s), "message.update", callback))

onNewChannel(s, callback) ==
    IF NoSocket(s) THEN s ELSE WithHeld(s, socketOn(Held(s), "channel.new", callback, FALSE))

offNewChannel(s, callback) ==
    IF NoSocket(s) THEN s ELSE WithHeld(s, socketOff(Held(s), "channel.new", callback))

\* on() without its socket.off(event)
onWithoutOff(s, event, callback) ==
    IF NoSocket(s) THEN s
    ELSE WithHeld(s, socketOn(Held(s), event, callback, TRUE))

on(s, event, callback) ==
    IF NoSocket(s) THEN s
    ELSE WithHeld(s, socketOn(socketOffAll(Held(s), event), event, callback, TRUE))

off(s, event, callback) ==
    IF NoSocket(s) THEN s ELSE WithHeld(s, socketOff(Held(s), event, callback))

emit(s, event, arg) ==
    IF NoSocket(s) THEN s ELSE WithHeld(s, socketEmit(Held(s), event, arg))


-----------------------------------------------------------------------------
(* Socket events.  A payload is what the server sent as the event's first  *)
(* argument: one value, or an array of values.                             *)

Scalar(x)  == [ isArray |-> FALSE, items |-> << x >> ]
Array(xs)  == [ isArray |-> TRUE,  items |-> xs ]
Undefined  == [ isArray |-> FALSE, items |-> << >> ]

Payloads == { Scalar("m1"), Array(<< "m2", "m1" >>) }

\* socket.ts 102-107: the wrapper SocketService.on registers hands its
\* callback args[0], or args[0][0] when args[0] is an array
wrapperData(p) ==
    IF p.isArray
    THEN IF p.items = << >> THEN Undefined ELSE Scalar(p.items[1])
    ELSE p

\* the listener l of a socket receives the event's first argument p
invoke(l, p) == [ fn |-> l.fn, wrapped |-> l.wrapped,
                  arg |-> IF l.wrapped THEN wrapperData(p) ELSE p ]

\* the socket dispatches event ev with first argument p to its listeners, in
\* registration order
dispatch(sock, ev, p) ==
    LET ls == SelectSeq(sock.listeners, LAMBDA l : l.ev = ev)
    IN  [ i \in 1..Len(ls) |-> invoke(ls[i], p) ]

RECURSIVE SumOver(_, _)
SumOver(f, n) == IF n = 0 THEN 0 ELSE f[n] + SumOver(f, n - 1)

TotalListeners(s) == SumOver([ i \in 1..Len(s.socks) |-> Len(s.socks[i].listeners) ], Len(s.socks))
TotalEmits(s)     == SumOver([ i \in 1..Len(s.socks) |-> Len(s.socks[i].emitted) ], Len(s.socks))

\* the bound of the model: what a run may pile up
Size(s) == Len(s.socks) + TotalListeners(s) + TotalEmits(s)

-----------------------------------------------------------------------------
(* The state before anything is mounted *)

NoService == [ socket |-> 0, socks |-> << >> ]

NoStorage == [ token |-> Null, userId |-> Null, currentChannel |-> Null,
               currentChannelName |-> Null, currentChannelType |-> Null ]

NoHttp == [ stage |-> "idle" ]

\* Sidebar (part_011 18-27): useState initial values
NoSidebar == [ showCreateChannel |-> FALSE, newChannelName |-> "", error |-> "",
              isCreating |-> FALSE, selectedWorkspace |-> "NO_WORKSPACE" ]

\* the page at "/" with nothing typed
PageInit ==
    /\ route = "/"
    /\ sidebar = NoSidebar

\* the ChatLayout state and its surroundings, but for `messages`
LayoutRest ==
    /\ mounted = "none"
    /\ currentChannel = Null
    /\ channels = << >>
    /\ isLoadingChannel = FALSE
    /\ pending = {}
    /\ wire = {}
    /\ server = [ c \in Channels |-> << >> ]
    /\ consoleErrors = {}
    /\ unhandled = {}
    /\ input = [ message |-> "", files |-> 0 ]
    /\ sent = [ calls |-> 0, creates |-> 0 ]
    /\ expandedThreads = {}
    /\ budget = [ selects |-> 0, sends |-> 0, posts |-> 0, refreshes |-> 0, drops |-> 0,
                  logouts |-> 0, creations |-> 0 ]

LayoutInit ==
    /\ messages = << >>
    /\ LayoutRest

OtherInit ==
    /\ threadGroups = << >>
    /\ http = NoHttp
    /\ PageInit

-----------------------------------------------------------------------------
(* SocketService on its own: any caller, any order of calls *)

\* what `last` records of a step
Step(op, a, b) == [ op |-> op, a |-> a, b |-> b, before |-> 0,
                    p |-> Undefined, invoked |-> << >> ]

\* the listeners of event ev on the socket the service holds
ListenersOf(s, ev) ==
    IF NoSocket(s) THEN << >> ELSE SelectSeq(Held(s).listeners, LAMBDA l : l.ev = ev)

NoStep == Step("none", Null, Null)

SocketInit ==
    /\ localStorage \in { NoStorage, [NoStorage EXCEPT !.token = "tok", !.userId = "me"] }
    /\ svc = NoService
    /\ last = NoStep
    /\ LayoutInit
    /\ OtherInit

\* a caller calls the service method op(a, b), which leaves the service as s
Call(op, a, b, s) ==
    /\ Size(s) <= MaxSize
    /\ svc' = s
    /\ last' = [ Step(op, a, b) EXCEPT !.before = Len(ListenersOf(svc, a)) ]
    /\ UNCHANGED << localStorage, layoutVars, otherVars >>

SvcConnect == Call("connect", Null, Null, connect(svc, localStorage))

SvcDisconnect == Call("disconnect", Null, Null, disconnect(svc))

SvcJoinChannel == \E c \in Channels : Call("joinChannel", c, Null, joinChannel(svc, c))

SvcLeaveChannel == \E c \in Channels : Call("leaveChannel", c, Null, leaveChannel(svc, c))

SvcEmit == Call("emit", "typing", Null, emit(svc, "typing", Null))

SvcOnNewMessage ==
    \E cb \in Callbacks : Call("onNewMessage", "message.new", cb, onNewMessage(svc, cb))

SvcOffNewMessage ==
    \E cb \in Callbacks : Call("offNewMessage", "message.new", cb, offNewMessage(svc, cb))

SvcOnMessageUpdate ==
    \E cb \in Callbacks : Call("onMessageUpdate", "message.update", cb, onMessageUpdate(svc, cb))

SvcOffMessageUpdate ==
    \E cb \in Callbacks : Call("offMessageUpdate", "message.update", cb, offMessageUpdate(svc, cb))

SvcOnNewChannel ==
    \E cb \in Callbacks : Call("onNewChannel", "channel.new", cb, onNewChannel(svc, cb))

SvcOffNewChannel ==
    \E cb \in Callbacks : Call("offNewChannel", "channel.new", cb, offNewChannel(svc, cb))

SvcOn == \E ev \in Events, cb \in Callbacks : Call("on", ev, cb, on(svc, ev, cb))

SvcOff == \E ev \in Events, cb \in Callbacks : Call("off", ev, cb, off(svc, ev, cb))

\* the 'connect' handler rejoining the room of channel "A"
onConnectRejoin(s, i) == [ s EXCEPT !.socks[i] = socketEmit(@, "channel.join", "A") ]

\* the 'connect' handler of socket.ts 28-31: it logs
onConnect(s, i) == s

\* the transport of socket i opens, and the socket fires 'connect'
SocketConnected ==
    \E i \in 1..Len(svc.socks) :
        /\ svc.socks[i].status = "connecting"
        /\ svc' = onConnect([svc EXCEPT !.socks[i].status = "connected"], i)
        /\ last' = Step("connected", Null, Null)
        /\ UNCHANGED << localStorage, layoutVars, otherVars >>

\* the server sends event ev with first argument p to the connected socket i,
\* which has listeners for it
ServerEvent ==
    \E i \in 1..Len(svc.socks), ev \in Events, p \in Payloads :
        /\ svc.socks[i].status = "connected"
        /\ dispatch(svc.socks[i], ev, p) # << >>
        /\ last' = [ Step("event", ev, Null) EXCEPT
                       !.p = p, !.invoked = dispatch(svc.socks[i], ev, p) ]
        /\ UNCHANGED << localStorage, svc, layoutVars, otherVars >>

SocketNext ==
    \/ SvcConnect
    \/ SvcDisconnect
    \/ SvcJoinChannel
    \/ SvcLeaveChannel
    \/ SvcEmit
    \/ SvcOnNewMessage
    \/ SvcOffNewMessage
    \/ SvcOnMessageUpdate
    \/ SvcOffMessageUpdate
    \/ SvcOnNewChannel
    \/ SvcOffNewChannel
    \/ SvcOn
    \/ SvcOff
    \/ SocketConnected
    \/ ServerEvent

SpecSocket == SocketInit /\ [][SocketNext]_vars


-----------------------------------------------------------------------------
(* SocketService: properties *)

\* C8: after SocketService.on(event, cb), called while a socket exists, the
\* socket has exactly one listener for that event, the wrapper of cb, whatever
\* was registered for it before; and a wrapper hands its callback the event's
\* first argument, or that argument's first element when it is an array.
C8_OnLeavesOneWrapper ==
    /\ (last.op = "on" /\ ~NoSocket(svc)) =>
          ListenersOf(svc, last.a) = << [ ev |-> last.a, fn |-> last.b, wrapped |-> TRUE ] >>
    /\ last.op = "event" =>
          \A i \in 1..Len(last.invoked) :
              last.invoked[i].wrapped =>
                  last.invoked[i].arg =
                      IF last.p.isArray THEN Scalar(last.p.items[1]) ELSE last.p

\* on() has just replaced two listeners of its event, added through the
\* helpers, by one wrapper
C8_Witness ==
    /\ last.op = "on"
    /\ last.before = 2
    /\ Len(ListenersOf(svc, last.a)) = 1

ServiceCalls == { "joinChannel", "leaveChannel", "emit", "on", "off",
                  "onNewMessage", "offNewMessage", "onMessageUpdate",
                  "offMessageUpdate", "onNewChannel", "offNewChannel" }

\* C9: connect() without a token in localStorage creates no socket; while the
\* service holds no socket, joinChannel, leaveChannel, emit, on, off and the
\* onX/offX helpers change nothing of any socket; and the socket a later
\* connect() creates starts with no listener and no emit of those calls.
C9_NoSocketNoOperation ==
    [][ /\ (last'.op = "connect" /\ localStorage.token = Null) => svc' = svc
        /\ (last'.op \in ServiceCalls /\ NoSocket(svc)) => svc' = svc
        /\ (last'.op = "connect" /\ svc'.socket # svc.socket) =>
              /\ Held(svc').listeners = << >>
              /\ Held(svc').emitted = << >>
      ]_vars

\* a listener was requested after disconnect(), with a token present, and the
\* service still holds no socket
C9_Witness ==
    /\ last.op \in { "on", "onNewMessage" }
    /\ NoSocket(svc)
    /\ Len(svc.socks) >= 1
    /\ localStorage.token # Null

\* C10: every socket the service ever created is the one it holds or has been
\* disconnected.
C10_NoSocketLeftOpen ==
    \A i \in 1..Len(svc.socks) : i = svc.socket \/ svc.socks[i].status = "closed"

\* C11: SocketService.off(event, cb) undoes SocketService.on(event, cb): when
\* off(event, cb) is called right after on(event, cb) on a held socket, with
\* the same event and the same cb, no listener for that event remains
C11_OffUndoesOn ==
    [][ ( /\ last.op = "on" /\ last'.op = "off"
          /\ last'.a = last.a /\ last'.b = last.b
          /\ ~NoSocket(svc) )
        => ListenersOf(svc', last'.a) = << >>
      ]_vars

-----------------------------------------------------------------------------
(* MessageList (components/Chat/ThreadView.tsx 163-405): thread grouping.  *)
(* A message is a record with an id and a threadId; NoThread is the        *)
(* threadId of a message that has none.                                    *)

NoThread == 0

MaxThreadMsgs == 3   \* messages in the array handed to MessageList

MsgIds == 1..MaxThreadMsgs

\* ThreadView.tsx 312
isParent(message) == message.threadId = NoThread \/ message.threadId = message.id

\* groups.find(g => g.threadId === message.threadId): the index of the first
\* such group, 0 when there is none
findGroup(groups, threadId) ==
    LET hit == { i \in 1..Len(groups) : groups[i].threadId = threadId }
    IN  IF hit = {} THEN 0 ELSE CHOOSE i \in hit : \A j \in hit : i <= j

\* one step of the reduce: a reply whose parent has no group yet is dropped
addToGroups(groups, message) ==
    IF isParent(message)
    THEN Append(groups, [ threadId |-> message.id, messages |-> << message >> ])
    ELSE LET k == findGroup(groups, message.threadId)
         IN  IF k # 0
             THEN [ groups EXCEPT ![k].messages = Append(@, message) ]
             ELSE groups

RECURSIVE reduceGroups(_, _, _)
reduceGroups(groups, msgs, i) ==
    IF i > Len(msgs) THEN groups
    ELSE reduceGroups(addToGroups(groups, msgs[i]), msgs, i + 1)

\* ThreadView.tsx 311-326
ThreadGroups(msgs) == reduceGroups(<< >>, msgs, 1)

\* the arrays MessageList may be handed: messages with distinct ids, in any
\* order, each a parent or a reply to some id
ThreadMessages == [ id : MsgIds, threadId : {NoThread} \cup MsgIds ]

MessageArrays ==
    UNION { { s \in [ 1..n -> ThreadMessages ] :
                \A i, j \in 1..n : i # j => s[i].id # s[j].id } : n \in 0..MaxThreadMsgs }

ThreadsInit ==
    /\ messages \in MessageArrays
    /\ threadGroups = << >>
    /\ http = NoHttp
    /\ PageInit
    /\ localStorage = NoStorage
    /\ svc = NoService
    /\ last = NoStep
    /\ LayoutRest

\* MessageList renders the array it was handed
RenderMessageList ==
    /\ mounted = "none"
    /\ mounted' = "MessageList"
    /\ threadGroups' = ThreadGroups(messages)
    /\ UNCHANGED << localStorage, svc, last, currentChannel, messages, channels,
                    isLoadingChannel, pending, wire, server, consoleErrors,
                    unhandled, input, sent, expandedThreads, budget, http,
                    pageVars >>

ThreadsNext == RenderMessageList

SpecThreads == ThreadsInit /\ [][ThreadsNext]_vars

\* the groups a message of the array appears in, counted with repetition
Occurrences(m) ==
    SumOver([ g \in 1..Len(threadGroups) |->
                Cardinality({ k \in 1..Len(threadGroups[g].messages) :
                                threadGroups[g].messages[k] = m }) ],
            Len(threadGroups))

\* C2: once MessageList has rendered, every message of the array is in
\* exactly one thread group, the first element of each group is a parent
\* (no threadId, or its own id) and every other element of the group has the
\* parent's id as its threadId.
C2_ThreadGroupsPartition ==
    mounted = "MessageList" =>
        /\ \A i \in 1..Len(messages) : Occurrences(messages[i]) = 1
        /\ \A g \in 1..Len(threadGroups) :
              LET ms == threadGroups[g].messages
              IN  /\ isParent(ms[1])
                  /\ \A k \in 2..Len(ms) : ms[k].threadId = ms[1].id

-----------------------------------------------------------------------------
(* The Axios client (services/api.ts): the request interceptor and the two *)
(* response interceptors, around one request.                              *)

Statuses == { 200, 201, 400, 401, 404, 409, 500 }

ErrorTexts == { "Invalid credentials", "Channel name already exists" }

\* axios's default validateStatus
validateStatus(status) == status >= 200 /\ status < 300

\* what the adapter settles with: a response (the promise is fulfilled), an
\* AxiosError carrying the response, or an AxiosError without response
Response(status, error) ==
    [ kind |-> "response", status |-> status, error |-> error, message |-> Null,
      hasResponse |-> TRUE ]

AxiosError(status, error) ==
    [ kind |-> "AxiosError", status |-> status, error |-> error,
      message |-> "Request failed", hasResponse |-> TRUE ]

NetworkError ==
    [ kind |-> "AxiosError", status |-> 0, error |-> Null,
      message |-> "Network Error", hasResponse |-> FALSE ]

\* new Error(message): an undefined message leaves the error's message empty
errorMessage(message) == IF message = Null THEN "" ELSE message

\* api.ts 287-292
ApiError(status, message) ==
    [ kind |-> "ApiError", status |-> status, error |-> Null,
      message |-> errorMessage(message), hasResponse |-> FALSE ]

\* the outcomes of the adapter: the body of a response is an object with or
\* without an `error` field
AdapterOutcomes ==
    { [ settled |-> "fulfilled", value |-> Response(st, Null) ] :
        st \in { s \in Statuses : validateStatus(s) } }
    \cup { [ settled |-> "rejected", value |-> AxiosError(st, e) ] :
             st \in { s \in Statuses : ~validateStatus(s) }, e \in ErrorTexts \cup {Null} }
    \cup { [ settled |-> "rejected", value |-> NetworkError ] }

\* api.ts 12-24: the request interceptor
requestInterceptor(config, ls) ==
    [ config EXCEPT
        !.authorization = IF ls.token # Null THEN ls.token ELSE @,
        !.contentType   = IF ~config.isFormData THEN "application/json" ELSE @ ]

\* the first response interceptor rethrowing every error as it came
firstInterceptorRethrows(o) == o

\* api.ts 295-303: the first response interceptor
firstInterceptor(o) ==
    IF o.settled = "fulfilled" THEN o
    ELSE IF o.value.hasResponse
         THEN [ settled |-> "rejected", value |-> ApiError(o.value.status, o.value.error) ]
         ELSE o

\* api.ts 306-315: the second response interceptor, which logs
secondInterceptor(o) == o

ApiInit ==
    /\ http = NoHttp
    /\ localStorage \in { NoStorage, [NoStorage EXCEPT !.token = "tok", !.userId = "me"] }
    /\ threadGroups = << >>
    /\ PageInit
    /\ svc = NoService
    /\ last = NoStep
    /\ LayoutInit

ApiUnchanged ==
    UNCHANGED << localStorage, svc, last, layoutVars, threadGroups, pageVars >>

\* a caller makes a request: the request interceptor runs
ApiRequest ==
    /\ http.stage = "idle"
    /\ \E fd \in BOOLEAN :
          http' = [ stage  |-> "sent",
                    config |-> requestInterceptor(
                                  [ isFormData |-> fd, authorization |-> Null,
                                    contentType |-> Null ], localStorage) ]
    /\ ApiUnchanged

\* the adapter settles
ApiAdapter ==
    /\ http.stage = "sent"
    /\ \E o \in AdapterOutcomes :
          http' = [ stage |-> "adapter", config |-> http.config,
                    raw |-> o, out |-> o ]
    /\ ApiUnchanged

ApiFirstInterceptor ==
    /\ http.stage = "adapter"
    /\ http' = [ http EXCEPT !.stage = "first", !.out = firstInterceptor(http.out) ]
    /\ ApiUnchanged

\* after it the caller's promise settles
ApiSecondInterceptor ==
    /\ http.stage = "first"
    /\ http' = [ http EXCEPT !.stage = "done", !.out = secondInterceptor(http.out) ]
    /\ ApiUnchanged

ApiNext ==
    \/ ApiRequest
    \/ ApiAdapter
    \/ ApiFirstInterceptor
    \/ ApiSecondInterceptor

SpecApi == ApiInit /\ [][ApiNext]_vars

-----------------------------------------------------------------------------
(* ChatLayout (components/Chat/ChannelBrowser.tsx 77-746) with the         *)
(* MessageList (ThreadView.tsx 425-575) and the MessageInput it renders.   *)
(* An async handler suspended at an await is a record of `pending`; the    *)
(* request it waits for may succeed or fail, in any order with the others. *)

\* Bounds: what the user and the environment may start in one run
MaxSelects   == 2   \* channel selections
MaxSends     == 2   \* messages the user submits
MaxPosts     == 1   \* messages other users post
MaxRefreshes == 1   \* thread toggles and reaction changes
MaxDrops     == 1   \* transport drops
MaxLogouts   == 1   \* clicks on the logout button
MaxCreations == 1   \* submits of the create-channel form

UserIds == { "me", "other" }

Msg(id, c, u, t) ==
    [ id |-> id, channelId |-> c, userId |-> u, threadId |-> t, replies |-> << >>,
      replyCount |-> 0 ]

\* what the backend holds when the page is opened
SeedServer ==
    [ c \in Channels |->
        IF c = "A" THEN << Msg(1, "A", "other", NoThread) >>
                   ELSE << Msg(2, "B", "other", NoThread) >> ]

ChannelName(c) == c

ChannelType(c) == IF c = "B" THEN "dm" ELSE "public"

\* the id the backend gives the next message
NextId == 1 + SumOver([ i \in 1..2 |-> Len(server[IF i = 1 THEN "A" ELSE "B"]) ], 2)

\* a function object created by a render: the handler h closed over channel c
fnOf(h, c) == [ h |-> h, c |-> c ]

\* a request in flight and the continuation that waits for it
FreshId(P) ==
    CHOOSE i \in 1..(Cardinality(P) + 1) :
        /\ \A r \in P : r.id # i
        /\ \A j \in 1..(i - 1) : \E r \in P : r.id = j

Issue(P, kind, pc, chan, prev, thread) ==
    P \cup { [ id |-> FreshId(P), kind |-> kind, pc |-> pc, chan |-> chan,
               prev |-> prev, thread |-> thread ] }

\* ChannelBrowser.tsx 94-111, 114: the connect effect
connectEffect(s, ls) ==
    on(on(connect(s, ls), "channel.new", fnOf("onChannelNew", Null)),
       "user.status", fnOf("onUserStatus", Null))

\* ChannelBrowser.tsx 157-158, 255-257: the join-channel effect for channel c
joinEffect(s, c) ==
    onMessageUpdate(
        on(onNewMessage(joinChannel(s, c), fnOf("handleNewMessage", c)),
           "message.reaction", fnOf("handleReaction", c)),
        fnOf("handleMessageUpdate", c))

\* ChannelBrowser.tsx 259-264: its cleanup
joinCleanup(s, c) ==
    offMessageUpdate(
        off(offNewMessage(leaveChannel(s, c), fnOf("handleNewMessage", c)),
            "message.reaction", fnOf("handleReaction", c)),
        fnOf("handleMessageUpdate", c))

\* React commits a render in which currentChannel went from prev to c: the
\* effects that depend on it are cleaned up and run again
commitChannel(s, prev, c) ==
    IF prev = c THEN s
    ELSE joinEffect(IF prev # Null THEN joinCleanup(s, prev) ELSE s, c)

\* ChannelBrowser.tsx 269-284: the messages-load effect of the same commit
commitFetch(P, prev, c) ==
    IF prev = c THEN P ELSE Issue(P, "fetch", "await", c, Null, NoThread)

\* setChannels(prev => prev.map(...)) of lines 206-213 and 342-350
markChannelRead(chs, c) ==
    [ i \in 1..Len(chs) |-> IF chs[i].id = c THEN [ chs[i] EXCEPT !.lastRead = "now" ] ELSE chs[i] ]

\* the same update clearing lastRead of every entry
clearEveryLastRead(chs, c) ==
    [ i \in 1..Len(chs) |-> [ chs[i] EXCEPT !.lastRead = Null ] ]

\* setChannels(prev => prev.map(...)) of lines 219-226
clearLastRead(chs, c) ==
    [ i \in 1..Len(chs) |-> IF chs[i].id = c THEN [ chs[i] EXCEPT !.lastRead = Null ] ELSE chs[i] ]

\* setMessages of the messages-load effect (275-277) when ignoring a response
\* for a channel that is no longer current
fetchedMessagesIfCurrent(cur, chan, data, msgs) == IF chan = cur THEN data ELSE msgs

\* setMessages of the messages-load effect (275-277): the response data
fetchedMessages(cur, chan, data, msgs) == data

\* setMessages(messages) of handleChannelSelect (333-335)
loadedMessages(cur, chan, data, msgs) == data

\* handleNewMessage when it appends every message of the current channel, a
\* reply included
handleNewMessageAppendsReply(st, cur, message, currentUserId) ==
    IF message.channelId = cur
    THEN [ st EXCEPT !.messages = Append(@, message) ]
    ELSE st

\* ChannelBrowser.tsx 160-228: handleNewMessage of the effect run for channel
\* cur, on the component state st = [messages, channels, pending]
handleNewMessage(st, cur, message, currentUserId) ==
    IF message.channelId = cur
    THEN [ st EXCEPT
             !.messages =
                 IF message.threadId # NoThread
                 THEN [ i \in 1..Len(@) |->
                          IF @[i].id = message.threadId
                          THEN [ @[i] EXCEPT !.replies = Append(@, message.id) ]
                          ELSE @[i] ]
                 ELSE Append(@, message),
             !.pending =
                 IF message.userId = currentUserId THEN @
                 ELSE Issue(@, "markRead", "await", message.channelId, Null, NoThread) ]
    ELSE IF message.userId # currentUserId
         THEN [ st EXCEPT !.channels = clearLastRead(@, message.channelId) ]
         ELSE st

\* a 'message.new' listener of the socket runs
applyListener(st, l, message, currentUserId) ==
    IF l.fn.h = "handleNewMessage"
    THEN handleNewMessage(st, l.fn.c, message, currentUserId)
    ELSE st

RECURSIVE runListeners(_, _, _, _, _)
runListeners(st, ls, i, message, currentUserId) ==
    IF i > Len(ls) THEN st
    ELSE runListeners(applyListener(st, ls[i], message, currentUserId),
                      ls, i + 1, message, currentUserId)

HeldConnected == ~NoSocket(svc) /\ Held(svc).status = "connected"

\* the server broadcasts a new message: it reaches the client's socket if that
\* is connected
broadcast(w, message) == IF HeldConnected THEN w \cup { message } ELSE w

LayoutStart ==
    /\ messages = << >>
    /\ mounted = "none"
    /\ currentChannel = Null
    /\ channels = << >>
    /\ isLoadingChannel = FALSE
    /\ pending = {}
    /\ wire = {}
    /\ server = SeedServer
    /\ consoleErrors = {}
    /\ unhandled = {}
    /\ input = [ message |-> "", files |-> 0 ]
    /\ sent = [ calls |-> 0, creates |-> 0 ]
    /\ expandedThreads = {}

\* a logged-in user opens the page; localStorage may hold the channel of the
\* last visit
PageOpened ==
    /\ \E c \in Channels \cup {Null} :
          localStorage = [ token |-> "tok", userId |-> "me", currentChannel |-> c,
                           currentChannelName |-> IF c = Null THEN Null ELSE ChannelName(c),
                           currentChannelType |-> IF c = Null THEN Null ELSE ChannelType(c) ]
    /\ svc = NoService
    /\ last = NoStep
    /\ LayoutStart
    /\ OtherInit

Init ==
    /\ PageOpened
    /\ budget = [ selects |-> MaxSelects, sends |-> MaxSends, posts |-> MaxPosts,
                  refreshes |-> MaxRefreshes, drops |-> 0,
                  logouts |-> 0, creations |-> 0 ]

\* the same, in a run whose transport may drop
DropInit ==
    /\ PageOpened
    /\ budget = [ selects |-> MaxDrops, sends |-> 0, posts |-> 0, refreshes |-> 0,
                  drops |-> MaxDrops,
                  logouts |-> 0, creations |-> 0 ]

\* ChannelBrowser.tsx 78-153, 156-284: the first render and its effects
Mount ==
    /\ mounted = "none"
    /\ mounted' = "ChatLayout"
    /\ LET cur == localStorage.currentChannel
           s1  == connectEffect(svc, localStorage)
       IN  /\ currentChannel' = cur
           /\ svc' = commitChannel(s1, Null, cur)
           /\ pending' = commitFetch(pending, Null, cur)
    /\ last' = Step("mount", Null, Null)
    /\ UNCHANGED << localStorage, messages, channels, isLoadingChannel, wire, server,
                    consoleErrors, unhandled, input, sent, expandedThreads, budget,
                    otherVars >>

\* ChannelBrowser.tsx 323-333: handleChannelSelect stores the channel, sets the
\* state and requests the channel's messages; React commits the new channel.
\* P is `pending` without this continuation.
SelectSwitch(channelId, P) ==
    /\ localStorage' = [ localStorage EXCEPT
                           !.currentChannel = channelId,
                           !.currentChannelName = ChannelName(channelId),
                           !.currentChannelType = ChannelType(channelId) ]
    /\ currentChannel' = channelId
    /\ svc' = commitChannel(svc, currentChannel, channelId)
    /\ pending' = commitFetch(Issue(P, "select", "list", channelId, Null, NoThread),
                              currentChannel, channelId)

\* ChannelBrowser.tsx 313-321: handleChannelSelect up to its first await; cur
\* is the currentChannel of the render that created the function
startChannelSelect(cur, channelId, P) ==
    /\ isLoadingChannel' = TRUE
    /\ IF cur # Null /\ cur # channelId
       THEN /\ pending' = Issue(P, "select", "markPrev", channelId, cur, NoThread)
            /\ UNCHANGED << localStorage, currentChannel, svc >>
       ELSE SelectSwitch(channelId, P)

\* ChannelBrowser.tsx 313-321: the user picks a channel in the sidebar
handleChannelSelect ==
    \E channelId \in Channels :
        /\ mounted = "ChatLayout"
        /\ budget.selects > 0
        /\ budget' = [ budget EXCEPT !.selects = @ - 1 ]
        /\ last' = Step("select", channelId, Null)
        /\ startChannelSelect(currentChannel, channelId, pending)
        /\ UNCHANGED << mounted, messages, channels, wire, server, consoleErrors,
                        unhandled, input, sent, expandedThreads, otherVars >>

\* api.channels.markRead(previous) resolved
SelectMarkPrevOk ==
    \E r \in pending :
        /\ r.kind = "select" /\ r.pc = "markPrev"
        /\ SelectSwitch(r.chan, pending \ {r})
        /\ last' = Step("markPrevOk", r.chan, Null)
        /\ UNCHANGED << mounted, messages, channels, isLoadingChannel, wire, server,
                        consoleErrors, unhandled, input, sent, expandedThreads,
                        budget, otherVars >>

\* ChannelBrowser.tsx 333-339: api.messages.list(channelId) resolved
SelectListOk ==
    \E r \in pending :
        /\ r.kind = "select" /\ r.pc = "list"
        /\ messages' = loadedMessages(currentChannel, r.chan, server[r.chan], messages)
        /\ pending' = (pending \ {r}) \cup { [ r EXCEPT !.pc = "markNew" ] }
        /\ last' = Step("listOk", r.chan, "select")
        /\ UNCHANGED << localStorage, svc, mounted, currentChannel, channels,
                        isLoadingChannel, wire, server, consoleErrors, unhandled,
                        input, sent, expandedThreads, budget, otherVars >>

\* ChannelBrowser.tsx 339-359: api.channels.markRead(channelId) resolved
SelectMarkNewOk ==
    \E r \in pending :
        /\ r.kind = "select" /\ r.pc = "markNew"
        /\ channels' = markChannelRead(channels, r.chan)
        /\ svc' = joinChannel(svc, r.chan)
        /\ isLoadingChannel' = FALSE
        /\ pending' = pending \ {r}
        /\ last' = Step("markNewOk", r.chan, Null)
        /\ UNCHANGED << localStorage, mounted, currentChannel, messages, wire, server,
                        consoleErrors, unhandled, input, sent, expandedThreads,
                        budget, otherVars >>

\* the catch of handleChannelSelect going on to switch the channel
SelectFailedSwitches ==
    \E r \in pending :
        /\ r.kind = "select"
        /\ SelectSwitch(r.chan, pending \ {r})
        /\ consoleErrors' = consoleErrors \cup { "Failed to load channel" }
        /\ isLoadingChannel' = FALSE
        /\ last' = Step("selectFailed", r.chan, r.pc)
        /\ UNCHANGED << mounted, messages, channels, wire, server, unhandled, input,
                        sent, expandedThreads, budget, otherVars >>

\* ChannelBrowser.tsx 355-359: any of the three requests rejected
SelectFailed ==
    \E r \in pending :
        /\ r.kind = "select"
        /\ pending' = pending \ {r}
        /\ consoleErrors' = consoleErrors \cup { "Failed to load channel" }
        /\ isLoadingChannel' = FALSE
        /\ last' = Step("selectFailed", r.chan, r.pc)
        /\ UNCHANGED << localStorage, svc, mounted, currentChannel, messages, channels,
                        wire, server, unhandled, input, sent, expandedThreads,
                        budget, otherVars >>

\* ChannelBrowser.tsx 273-277: the messages-load effect's request resolved
FetchOk ==
    \E r \in pending :
        /\ r.kind = "fetch"
        /\ messages' = fetchedMessages(currentChannel, r.chan, server[r.chan], messages)
        /\ pending' = pending \ {r}
        /\ last' = Step("listOk", r.chan, "fetch")
        /\ UNCHANGED << localStorage, svc, mounted, currentChannel, channels,
                        isLoadingChannel, wire, server, consoleErrors, unhandled,
                        input, sent, expandedThreads, budget, otherVars >>

\* ChannelBrowser.tsx 278-280
FetchFailed ==
    \E r \in pending :
        /\ r.kind = "fetch"
        /\ pending' = pending \ {r}
        /\ consoleErrors' = consoleErrors \cup { "Failed to fetch messages" }
        /\ last' = Step("fetchFailed", r.chan, Null)
        /\ UNCHANGED << localStorage, svc, mounted, currentChannel, messages, channels,
                        isLoadingChannel, wire, server, unhandled, input, sent,
                        expandedThreads, budget, otherVars >>

\* MessageInput: the user types a message or attaches a file
Typed == { [ message |-> "hi", files |-> 0 ], [ message |-> " ", files |-> 0 ],
           [ message |-> "", files |-> 1 ] }

\* String.prototype.trim on the texts of Typed
trim(text) == IF text = " " THEN "" ELSE text

InputRendered == mounted = "ChatLayout" /\ currentChannel # Null

TypeMessage ==
    \E typed \in Typed :
        /\ InputRendered
        /\ input = [ message |-> "", files |-> 0 ]
        /\ input' = typed
        /\ last' = Step("type", Null, Null)
        /\ UNCHANGED << localStorage, svc, mounted, currentChannel, messages, channels,
                        isLoadingChannel, pending, wire, server, consoleErrors,
                        unhandled, sent, expandedThreads, budget, otherVars >>

\* ChannelBrowser.tsx 286-300: handleSendMessage up to its await, as
\* [pending, sent]
handleSendMessage(P, n, cur) ==
    IF cur = Null THEN [ pending |-> P, sent |-> n ]
    ELSE [ pending |-> Issue(P, "send", "await", cur, Null, NoThread),
           sent    |-> [ calls |-> n.calls + 1, creates |-> n.creates + 1 ] ]

\* MessageInput.handleSubmit (part_013 36-53) calling ChatLayout.handleSendMessage
handleSubmit ==
    /\ InputRendered
    /\ trim(input.message) # "" \/ input.files # 0
    /\ budget.sends > 0
    /\ budget' = [ budget EXCEPT !.sends = @ - 1 ]
    /\ LET after == handleSendMessage(pending, sent, currentChannel)
       IN  /\ pending' = after.pending
           /\ sent' = after.sent
    /\ input' = [ message |-> "", files |-> 0 ]
    /\ last' = Step("submit", currentChannel, Null)
    /\ UNCHANGED << localStorage, svc, mounted, currentChannel, messages, channels,
                    isLoadingChannel, wire, server, consoleErrors, unhandled,
                    expandedThreads, otherVars >>

\* handleSendMessage's catch (301-303) when it sends the message once more
sendFailedRetry(P, n, r) ==
    [ pending |-> Issue(P \ {r}, "send", "await", r.chan, Null, NoThread),
      sent    |-> [ n EXCEPT !.creates = @ + 1 ] ]

\* handleSendMessage's catch (301-303), as [pending, sent]: it logs
sendFailed(P, n, r) == [ pending |-> P \ {r}, sent |-> n ]

\* api.messages.create resolved: the backend stored the message and
\* broadcasts 'message.new'
SendOk ==
    \E r \in pending :
        /\ r.kind = "send"
        /\ LET m == Msg(NextId, r.chan, "me", r.thread)
           IN  /\ server' = [ server EXCEPT ![r.chan] = Append(@, m) ]
               /\ wire' = broadcast(wire, m)
        /\ pending' = pending \ {r}
        /\ last' = Step("sendOk", r.chan, Null)
        /\ UNCHANGED << localStorage, svc, mounted, currentChannel, messages, channels,
                        isLoadingChannel, consoleErrors, unhandled, input, sent,
                        expandedThreads, budget, otherVars >>

\* api.messages.create rejected
SendFailed ==
    \E r \in pending :
        /\ r.kind = "send"
        /\ LET after == sendFailed(pending, sent, r)
           IN  /\ pending' = after.pending
               /\ sent' = after.sent
        /\ consoleErrors' = consoleErrors \cup { "Failed to send message" }
        /\ last' = Step("sendFailed", r.chan, Null)
        /\ UNCHANGED << localStorage, svc, mounted, currentChannel, messages, channels,
                        isLoadingChannel, wire, server, unhandled, input,
                        expandedThreads, budget, otherVars >>

\* the ids of the messages of channel c that start a thread
Parents(c) == { server[c][i].id : i \in { j \in 1..Len(server[c]) : server[c][j].threadId = NoThread } }

\* another user posts a message, or a reply, in channel c
OtherUserPost ==
    \E c \in Channels : \E t \in {NoThread} \cup Parents(c) :
        /\ mounted = "ChatLayout"
        /\ budget.posts > 0
        /\ budget' = [ budget EXCEPT !.posts = @ - 1 ]
        /\ LET m == Msg(NextId, c, "other", t)
           IN  /\ server' = [ server EXCEPT ![c] = Append(@, m) ]
               /\ wire' = broadcast(wire, m)
        /\ last' = Step("post", c, Null)
        /\ UNCHANGED << localStorage, svc, mounted, currentChannel, messages, channels,
                        isLoadingChannel, pending, consoleErrors, unhandled, input,
                        sent, expandedThreads, otherVars >>

\* a 'message.new' event reaches the socket: its listeners run in order
MessageNew ==
    \E m \in wire :
        /\ HeldConnected
        /\ LET st == runListeners(
                        [ messages |-> messages, channels |-> channels, pending |-> pending ],
                        ListenersOf(svc, "message.new"), 1, m, localStorage.userId)
           IN  /\ messages' = st.messages
               /\ channels' = st.channels
               /\ pending' = st.pending
        /\ wire' = wire \ {m}
        /\ last' = [ Step("messageNew", m.channelId, m.userId) EXCEPT
                       !.before = Len(ListenersOf(svc, "message.new")) ]
        /\ UNCHANGED << localStorage, svc, mounted, currentChannel, isLoadingChannel,
                        server, consoleErrors, unhandled, input, sent,
                        expandedThreads, budget, otherVars >>

\* ChannelBrowser.tsx 203-214: api.channels.markRead of handleNewMessage resolved
MarkReadOk ==
    \E r \in pending :
        /\ r.kind = "markRead"
        /\ channels' = markChannelRead(channels, r.chan)
        /\ pending' = pending \ {r}
        /\ last' = Step("markReadOk", r.chan, Null)
        /\ UNCHANGED << localStorage, svc, mounted, currentChannel, messages,
                        isLoadingChannel, wire, server, consoleErrors, unhandled,
                        input, sent, expandedThreads, budget, otherVars >>

\* ChannelBrowser.tsx 215
MarkReadFailed ==
    \E r \in pending :
        /\ r.kind = "markRead"
        /\ pending' = pending \ {r}
        /\ consoleErrors' = consoleErrors \cup { "Failed to mark channel as read" }
        /\ last' = Step("markReadFailed", r.chan, Null)
        /\ UNCHANGED << localStorage, svc, mounted, currentChannel, messages, channels,
                        isLoadingChannel, wire, server, unhandled, input, sent,
                        expandedThreads, budget, otherVars >>

\* ChannelBrowser.tsx 98-111: a 'channel.new' event for a channel the list
\* does not hold yet
ChannelNew ==
    \E c \in Channels :
        /\ HeldConnected
        /\ ListenersOf(svc, "channel.new") # << >>
        /\ \A i \in 1..Len(channels) : channels[i].id # c
        /\ channels' = Append(channels, [ id |-> c, lastRead |-> "t0" ])
        /\ last' = Step("channelNew", c, Null)
        /\ UNCHANGED << localStorage, svc, mounted, currentChannel, messages,
                        isLoadingChannel, pending, wire, server, consoleErrors,
                        unhandled, input, sent, expandedThreads, budget, otherVars >>

ListRendered == mounted = "ChatLayout" /\ currentChannel # Null /\ ~isLoadingChannel

\* ThreadView.tsx 458-462: MessageList.toggleThread up to its await
toggleThread ==
    \E i \in 1..Len(messages) :
        /\ ListRendered
        /\ messages[i].threadId = NoThread
        /\ budget.refreshes > 0
        /\ budget' = [ budget EXCEPT !.refreshes = @ - 1 ]
        /\ pending' = Issue(pending, "toggle", "await", currentChannel, Null, messages[i].id)
        /\ last' = Step("toggle", currentChannel, Null)
        /\ UNCHANGED << localStorage, svc, mounted, currentChannel, messages, channels,
                        isLoadingChannel, wire, server, consoleErrors, unhandled,
                        input, sent, expandedThreads, otherVars >>

\* ThreadView.tsx 462-478
ToggleOk ==
    \E r \in pending :
        /\ r.kind = "toggle"
        /\ messages' = server[r.chan]
        /\ expandedThreads' = IF r.thread \in expandedThreads
                              THEN expandedThreads \ { r.thread }
                              ELSE expandedThreads \cup { r.thread }
        /\ pending' = pending \ {r}
        /\ last' = Step("listOk", r.chan, "toggle")
        /\ UNCHANGED << localStorage, svc, mounted, currentChannel, channels,
                        isLoadingChannel, wire, server, consoleErrors, unhandled,
                        input, sent, budget, otherVars >>

\* a handler without try/catch whose awaited request rejected: the promise it
\* returned is rejected, and no caller awaits it
escapes(u, handler) == u \cup { handler }

\* ThreadView.tsx 462: the request rejected
ToggleFailed ==
    \E r \in pending :
        /\ r.kind = "toggle"
        /\ unhandled' = escapes(unhandled, "toggleThread")
        /\ pending' = pending \ {r}
        /\ last' = Step("toggleFailed", r.chan, Null)
        /\ UNCHANGED << localStorage, svc, mounted, currentChannel, messages, channels,
                        isLoadingChannel, wire, server, consoleErrors, input, sent,
                        expandedThreads, budget, otherVars >>

\* ThreadView.tsx 497-498: onReactionChange up to its await; MessageReactions
\* calls it without awaiting it (MessageReactions.tsx 27, 37)
onReactionChange ==
    /\ ListRendered
    /\ messages # << >>
    /\ budget.refreshes > 0
    /\ budget' = [ budget EXCEPT !.refreshes = @ - 1 ]
    /\ pending' = Issue(pending, "reaction", "await", currentChannel, Null, NoThread)
    /\ last' = Step("reaction", currentChannel, Null)
    /\ UNCHANGED << localStorage, svc, mounted, currentChannel, messages, channels,
                    isLoadingChannel, wire, server, consoleErrors, unhandled,
                    input, sent, expandedThreads, otherVars >>

\* ThreadView.tsx 498-499
ReactionOk ==
    \E r \in pending :
        /\ r.kind = "reaction"
        /\ messages' = server[r.chan]
        /\ pending' = pending \ {r}
        /\ last' = Step("listOk", r.chan, "reaction")
        /\ UNCHANGED << localStorage, svc, mounted, currentChannel, channels,
                        isLoadingChannel, wire, server, consoleErrors, unhandled,
                        input, sent, expandedThreads, budget, otherVars >>

\* ThreadView.tsx 498: the request rejected
ReactionFailed ==
    \E r \in pending :
        /\ r.kind = "reaction"
        /\ unhandled' = escapes(unhandled, "onReactionChange")
        /\ pending' = pending \ {r}
        /\ last' = Step("reactionFailed", r.chan, Null)
        /\ UNCHANGED << localStorage, svc, mounted, currentChannel, messages, channels,
                        isLoadingChannel, wire, server, consoleErrors, input, sent,
                        expandedThreads, budget, otherVars >>

\* the 'disconnect' handler of socket.ts 42-44: it logs
onDisconnect(s, i) == s

\* the transport of socket i opens, first or again, and the socket fires
\* 'connect'
TransportUp ==
    \E i \in 1..Len(svc.socks) :
        /\ svc.socks[i].status = "connecting"
        /\ svc' = onConnect([ svc EXCEPT !.socks[i].status = "connected" ], i)
        /\ last' = Step("connected", Null, Null)
        /\ UNCHANGED << localStorage, layoutVars, otherVars >>

\* the transport of socket i drops: the socket fires 'disconnect' and
\* socket.io-client starts reconnecting; events the server sends meanwhile
\* are lost
TransportDown ==
    \E i \in 1..Len(svc.socks) :
        /\ svc.socks[i].status = "connected"
        /\ budget.drops > 0
        /\ budget' = [ budget EXCEPT !.drops = @ - 1 ]
        /\ svc' = onDisconnect([ svc EXCEPT !.socks[i].status = "connecting",
                                            !.socks[i].dropAt = Len(svc.socks[i].emitted) ], i)
        /\ wire' = {}
        /\ last' = Step("disconnected", Null, Null)
        /\ UNCHANGED << localStorage, mounted, currentChannel, messages, channels,
                        isLoadingChannel, pending, server, consoleErrors, unhandled,
                        input, sent, expandedThreads, otherVars >>

\* Channel selection and message loading
Next ==
    \/ Mount
    \/ handleChannelSelect
    \/ SelectMarkPrevOk
    \/ SelectListOk
    \/ SelectMarkNewOk
    \/ SelectFailed
    \/ FetchOk
    \/ FetchFailed

Spec == Init /\ [][Next]_vars

\* Sending messages
SendNext ==
    \/ Mount
    \/ FetchOk
    \/ FetchFailed
    \/ TypeMessage
    \/ handleSubmit
    \/ SendOk
    \/ SendFailed
    \/ MessageNew
    \/ TransportUp

SpecSend == Init /\ [][SendNext]_vars

\* MessageList refreshing itself
RefreshNext ==
    \/ Mount
    \/ FetchOk
    \/ FetchFailed
    \/ toggleThread
    \/ ToggleOk
    \/ ToggleFailed
    \/ onReactionChange
    \/ ReactionOk
    \/ ReactionFailed
    \/ OtherUserPost
    \/ MessageNew
    \/ MarkReadOk
    \/ MarkReadFailed
    \/ TransportUp

SpecRefresh == Init /\ [][RefreshNext]_vars

\* Dropped transports
DropNext ==
    \/ Next
    \/ TransportUp
    \/ TransportDown

SpecDrop == DropInit /\ [][DropNext]_vars

-----------------------------------------------------------------------------
(* Claims about ChatLayout (ChannelBrowser.tsx)                            *)

\* C1: message-list fetches are neither cancelled nor ordered: whenever a
\* response of api.messages.list arrives, for the channel-select handler or for
\* the messages-load effect, it overwrites `messages` with the messages of the
\* channel it was requested for, whichever channel is current by then
C1_LastResponseOverwrites ==
    [][ last'.op = "listOk" => messages' = server[last'.a] ]_vars

\* C1: the quiescent state the race ends in: the user selected twice, B is
\* current, nothing is in flight, and `messages` holds A's messages because
\* A's response arrived last
C1_Witness ==
    /\ pending = {}
    /\ budget.selects = MaxSelects - 2
    /\ currentChannel = "B"
    /\ localStorage.currentChannel = "B"
    /\ last.op = "listOk" /\ last.a = "A"
    /\ messages # << >>
    /\ \A i \in 1..Len(messages) : messages[i].channelId = "A"

\* C3: no rejected promise escapes the handler whose REST call rejected
C3_NoRejectionEscapes == unhandled = {}

\* the api.messages.create requests in flight
Creates == { r \in pending : r.kind = "send" }

Joins(s) ==
    [ i \in 1..Len(s.socks) |->
        SelectSeq(s.socks[i].emitted, LAMBDA e : e[1] = "channel.join") ]

\* C5: no recovery for dropped sockets: when a socket fires 'disconnect', and
\* when its transport is back and it fires 'connect', SocketService keeps its
\* socket reference, creates no socket, and no listener changes and nothing is
\* emitted; a 'channel.join' is only ever emitted by the mount effects or by a
\* channel selection of the user
C5_NoRecovery ==
    [][ /\ last'.op \in { "disconnected", "connected" } =>
              /\ svc'.socket = svc.socket
              /\ Len(svc'.socks) = Len(svc.socks)
              /\ \A i \in 1..Len(svc.socks) :
                    /\ svc'.socks[i].listeners = svc.socks[i].listeners
                    /\ svc'.socks[i].emitted = svc.socks[i].emitted
        /\ Joins(svc') # Joins(svc) =>
              last'.op \in { "mount", "select", "markPrevOk", "markNewOk" }
      ]_vars

\* C5: the held socket dropped while a channel was current and is connected
\* again, nothing is in flight, and it has emitted nothing since the drop
C5_Witness ==
    /\ HeldConnected
    /\ currentChannel # Null
    /\ pending = {}
    /\ Held(svc).dropAt > 0
    /\ Held(svc).dropAt = Len(Held(svc).emitted)
    /\ last.op = "connected"

-----------------------------------------------------------------------------
(* ChatLayout (components/Chat/ChatLayout.tsx 129-677): the version with a *)
(* synchronous handleChannelSelect and a second 'message.new' effect       *)

\* ChatLayout.tsx 208-228: handleNewMessage of the effect run for channel cur,
\* on `messages`
handleNewMessageV1(msgs, cur, message) ==
    IF message.channelId = cur
    THEN Append(IF message.threadId # NoThread /\ message.threadId # message.id
                THEN [ i \in 1..Len(msgs) |->
                         IF msgs[i].id = message.threadId
                         THEN [ msgs[i] EXCEPT !.replyCount = @ + 1 ]
                         ELSE msgs[i] ]
                ELSE msgs,
                message)
    ELSE msgs

\* ChatLayout.tsx 300-305: the callback of the second 'message.new' effect
appendMessage(msgs, message) == Append(msgs, message)

\* ChatLayout.tsx 205-206, 246-248: the join-channel effect for channel c
joinEffectV1(s, c) ==
    onMessageUpdate(
        on(onNewMessage(joinChannel(s, c), fnOf("handleNewMessage", c)),
           "message.reaction", fnOf("handleReaction", c)),
        fnOf("handleMessageUpdate", c))

\* ChatLayout.tsx 250-255: its cleanup
joinCleanupV1(s, c) ==
    offMessageUpdate(
        off(offNewMessage(leaveChannel(s, c), fnOf("handleNewMessage", c)),
            "message.reaction", fnOf("handleReaction", c)),
        fnOf("handleMessageUpdate", c))

\* ChatLayout.tsx 298-310: the second 'message.new' effect, run once on mount
messageNewEffect(s) == on(s, "message.new", fnOf("appendMessage", Null))

\* React commits a render in which currentChannel went from prev to c
commitChannelV1(s, prev, c) ==
    IF prev = c THEN s
    ELSE LET cleaned == IF prev # Null THEN joinCleanupV1(s, prev) ELSE s
         IN  IF c # Null THEN joinEffectV1(cleaned, c) ELSE cleaned

\* ChatLayout.tsx 130-310: the first render and its four effects, in the order
\* the component declares them
MountV1 ==
    /\ mounted = "none"
    /\ mounted' = "ChatLayout"
    /\ LET cur == localStorage.currentChannel
           s1  == connectEffect(svc, localStorage)
           s2  == commitChannelV1(s1, Null, cur)
       IN  /\ currentChannel' = cur
           /\ svc' = messageNewEffect(s2)
           /\ pending' = commitFetch(pending, Null, cur)
    /\ last' = Step("mount", Null, Null)
    /\ UNCHANGED << localStorage, messages, channels, isLoadingChannel, wire, server,
                    consoleErrors, unhandled, input, sent, expandedThreads, budget,
                    otherVars >>

\* ChatLayout.tsx 312-322: handleChannelSelect, and the commit of the new
\* channel
handleChannelSelectV1 ==
    \E channelId \in Channels :
        /\ mounted = "ChatLayout"
        /\ budget.selects > 0
        /\ budget' = [ budget EXCEPT !.selects = @ - 1 ]
        /\ currentChannel' = channelId
        /\ messages' = << >>
        /\ localStorage' = [ localStorage EXCEPT
                               !.currentChannel = channelId,
                               !.currentChannelName = ChannelName(channelId),
                               !.currentChannelType = ChannelType(channelId) ]
        /\ svc' = commitChannelV1(svc, currentChannel, channelId)
        /\ pending' = commitFetch(pending, currentChannel, channelId)
        /\ last' = Step("select", channelId, Null)
        /\ UNCHANGED << mounted, channels, isLoadingChannel, wire, server,
                        consoleErrors, unhandled, input, sent, expandedThreads,
                        otherVars >>

\* ChatLayout.tsx 262-277: the messages-load effect's request resolved
FetchOkV1 ==
    \E r \in pending :
        /\ r.kind = "fetch"
        /\ messages' = server[r.chan]
        /\ pending' = pending \ {r}
        /\ last' = Step("listOk", r.chan, "fetch")
        /\ UNCHANGED << localStorage, svc, mounted, currentChannel, channels,
                        isLoadingChannel, wire, server, consoleErrors, unhandled,
                        input, sent, expandedThreads, budget, otherVars >>

\* ChatLayout.tsx 270-272
FetchFailedV1 ==
    \E r \in pending :
        /\ r.kind = "fetch"
        /\ pending' = pending \ {r}
        /\ consoleErrors' = consoleErrors \cup { "Failed to fetch messages" }
        /\ last' = Step("fetchFailed", r.chan, Null)
        /\ UNCHANGED << localStorage, svc, mounted, currentChannel, messages, channels,
                        isLoadingChannel, wire, server, unhandled, input, sent,
                        expandedThreads, budget, otherVars >>

\* a 'message.new' listener of the socket runs: a function passed to
\* onNewMessage gets the payload, a wrapper made by on() unwraps it first
applyListenerV1(msgs, l, message) ==
    IF l.fn.h = "handleNewMessage" THEN handleNewMessageV1(msgs, l.fn.c, message)
    ELSE IF l.fn.h = "appendMessage" THEN appendMessage(msgs, message)
    ELSE msgs

RECURSIVE runListenersV1(_, _, _, _)
runListenersV1(msgs, ls, i, message) ==
    IF i > Len(ls) THEN msgs
    ELSE runListenersV1(applyListenerV1(msgs, ls[i], message), ls, i + 1, message)

\* a 'message.new' event reaches the socket: its listeners run in order
MessageNewV1 ==
    \E m \in wire :
        /\ HeldConnected
        /\ messages' = runListenersV1(messages, ListenersOf(svc, "message.new"), 1, m)
        /\ wire' = wire \ {m}
        /\ last' = [ Step("messageNew", m.channelId, m.userId) EXCEPT
                       !.before = Len(ListenersOf(svc, "message.new")) ]
        /\ UNCHANGED << localStorage, svc, mounted, currentChannel, channels,
                        isLoadingChannel, pending, server, consoleErrors, unhandled,
                        input, sent, expandedThreads, budget, otherVars >>

NextV1 ==
    \/ MountV1
    \/ handleChannelSelectV1
    \/ FetchOkV1
    \/ FetchFailedV1
    \/ OtherUserPost
    \/ MessageNewV1
    \/ TransportUp

SpecV1 == Init /\ [][NextV1]_vars

\* C7: each 'message.new' event for the current channel adds exactly one entry
\* to `messages`, and an event for any other channel adds none
C7_OneEntryPerEvent ==
    [][ last'.op = "messageNew" =>
            Len(messages') = Len(messages) + (IF last'.a = currentChannel THEN 1 ELSE 0)
      ]_vars

-----------------------------------------------------------------------------
(* ChatLayout (ChannelBrowser.tsx) receiving 'message.new' events          *)

\* the current user posts a message in channel c from another session
OwnPostElsewhere ==
    \E c \in Channels :
        /\ mounted = "ChatLayout"
        /\ budget.posts > 0
        /\ budget' = [ budget EXCEPT !.posts = @ - 1 ]
        /\ LET m == Msg(NextId, c, localStorage.userId, NoThread)
           IN  /\ server' = [ server EXCEPT ![c] = Append(@, m) ]
               /\ wire' = broadcast(wire, m)
        /\ last' = Step("ownPost", c, Null)
        /\ UNCHANGED << localStorage, svc, mounted, currentChannel, messages, channels,
                        isLoadingChannel, pending, consoleErrors, unhandled, input,
                        sent, expandedThreads, otherVars >>

\* the page is opened in a run that follows the events of other sessions
EventsInit ==
    /\ PageOpened
    /\ budget = [ selects |-> 0, sends |-> 0, posts |-> MaxPosts, refreshes |-> 0,
                  drops |-> 0,
                  logouts |-> 0, creations |-> 0 ]

EventsNext ==
    \/ Mount
    \/ FetchOk
    \/ FetchFailed
    \/ OtherUserPost
    \/ OwnPostElsewhere
    \/ MessageNew
    \/ MarkReadOk
    \/ MarkReadFailed
    \/ ChannelNew
    \/ TransportUp

SpecEvents == EventsInit /\ [][EventsNext]_vars

\* C12: a 'message.new' event for the current channel that has a threadId
\* leaves the length of `messages` as it is: the reply's id is appended to the
\* `replies` of the message whose id is the threadId, and no other message
\* changes; an event for the current channel without threadId appends the
\* message at the end of `messages`
C12_ThreadedEventKeepsLength ==
    [][ \A m \in wire :
          ( /\ last'.op = "messageNew"
            /\ wire' = wire \ {m}
            /\ m.channelId = currentChannel )
          => IF m.threadId # NoThread
             THEN /\ Len(messages') = Len(messages)
                  /\ \A i \in 1..Len(messages) :
                        messages'[i] =
                            IF messages[i].id = m.threadId
                            THEN [ messages[i] EXCEPT !.replies = Append(@, m.id) ]
                            ELSE messages[i]
             ELSE messages' = Append(messages, m)
      ]_vars

\* C12: a reply for the current channel has just been delivered and its id is
\* in the `replies` of its parent
C12_Witness ==
    /\ last.op = "messageNew"
    /\ last.a = currentChannel
    /\ \E i \in 1..Len(messages) :
          /\ messages[i].replies # << >>
          /\ \E j \in 1..Len(server[currentChannel]) :
                /\ server[currentChannel][j].threadId = messages[i].id
                /\ messages[i].replies = << server[currentChannel][j].id >>

-----------------------------------------------------------------------------
(* Claims about channel selection in ChatLayout (ChannelBrowser.tsx)       *)

\* the continuations of handleChannelSelect that wait for markRead(previous)
MarkingPrevious == { r \in pending : r.kind = "select" /\ r.pc = "markPrev" }

\* C14: handleChannelSelect marks the previous channel as read before
\* switching: selecting while a different channel is current issues
\* api.channels.markRead(previous) and changes neither currentChannel nor
\* localStorage nor `messages`; these change only once that request has
\* completed; a failure of any request of the handler is only logged, and a
\* failure of markRead(previous) leaves currentChannel, the three localStorage
\* keys and `messages` as they were
C14_MarkPreviousBeforeSwitch ==
    [][ /\ ( /\ last'.op = "select"
             /\ currentChannel # Null
             /\ currentChannel # last'.a )
           => /\ \E r \in MarkingPrevious' \ MarkingPrevious :
                    r.chan = last'.a /\ r.prev = currentChannel
              /\ UNCHANGED << currentChannel, localStorage, messages >>
        /\ last'.op = "markPrevOk"
           => /\ currentChannel' = last'.a
              /\ localStorage'.currentChannel = last'.a
              /\ Cardinality(MarkingPrevious') = Cardinality(MarkingPrevious) - 1
        /\ last'.op = "selectFailed"
           => /\ consoleErrors' = consoleErrors \cup { "Failed to load channel" }
              /\ unhandled' = unhandled
              /\ UNCHANGED << currentChannel, localStorage, messages, channels, svc >>
      ]_vars

\* C14: B was selected while A was current and markRead(A) failed: A is still
\* current, stored and shown, and the failure is in the log
C14_Witness ==
    /\ last.op = "selectFailed"
    /\ last.a = "B"
    /\ last.b = "markPrev"
    /\ pending = {}
    /\ currentChannel = "A"
    /\ localStorage.currentChannel = "A"
    /\ localStorage.currentChannelName = ChannelName("A")
    /\ localStorage.currentChannelType = ChannelType("A")
    /\ messages = server["A"]
    /\ "Failed to load channel" \in consoleErrors
    /\ ~isLoadingChannel

\* the handleChannelSelect calls that have started and not yet finished
SelectsInFlight == { r \in pending : r.kind = "select" }

\* C15: isLoadingChannel is true in every state in which some
\* handleChannelSelect call has started and not finished, and false once every
\* started call has finished
C15_LoadingWhileSelecting ==
    isLoadingChannel = (SelectsInFlight # {})

\* the emits of the held socket that concern the room of channel c
RoomEmits(c) ==
    IF NoSocket(svc) THEN << >>
    ELSE SelectSeq(Held(svc).emitted,
                   LAMBDA e : e[2] = c /\ e[1] \in { "channel.join", "channel.leave" })

\* the channels whose most recent emit was 'channel.join'
Joined ==
    { c \in Channels : RoomEmits(c) # << >> /\ RoomEmits(c)[Len(RoomEmits(c))][1] = "channel.join" }

\* C16: in every state where no channel selection is in progress, the channels
\* whose most recent emit was 'channel.join' rather than 'channel.leave' are
\* exactly the current channel
C16_RoomFollowsCurrentChannel ==
    SelectsInFlight = {} => Joined = { currentChannel } \ { Null }

\* C17: `messages` never holds two entries with the same message id
C17_NoDuplicateIds ==
    \A i, j \in 1..Len(messages) : messages[i].id = messages[j].id => i = j

-----------------------------------------------------------------------------
(* ChatLayout.handleLogout (ChannelBrowser.tsx 362-375)                    *)

\* ChannelBrowser.tsx 148-152: the cleanup of the connect effect
connectCleanup(s) ==
    disconnect(off(off(s, "channel.new", fnOf("fresh", Null)),
                   "user.status", fnOf("fresh", Null)))

\* ChatLayout unmounts: the cleanups of its effects run in the order of the
\* effects, the connect effect's first
unmountEffects(s, cur) ==
    IF cur # Null THEN joinCleanup(connectCleanup(s), cur) ELSE connectCleanup(s)

\* removeItems leaving the stored channel behind
removeSession(ls) == [ ls EXCEPT !.token = Null, !.userId = Null ]

\* localStorage.removeItem of lines 369-373
removeItems(ls) ==
    [ ls EXCEPT !.token = Null, !.userId = Null, !.currentChannel = Null,
                !.currentChannelName = Null, !.currentChannelType = Null ]

LogoutInit ==
    /\ PageOpened
    /\ budget = [ selects |-> MaxLogouts, sends |-> 0, posts |-> 0, refreshes |-> 0,
                  drops |-> 0, logouts |-> MaxLogouts, creations |-> 0 ]

\* ChannelBrowser.tsx 362-364: the user clicks the logout button
handleLogout ==
    /\ mounted = "ChatLayout"
    /\ budget.logouts > 0
    /\ budget' = [ budget EXCEPT !.logouts = @ - 1 ]
    /\ pending' = Issue(pending, "logout", "await", Null, Null, NoThread)
    /\ last' = Step("logout", Null, Null)
    /\ UNCHANGED << localStorage, svc, mounted, currentChannel, messages, channels,
                    isLoadingChannel, wire, server, consoleErrors, unhandled, input,
                    sent, expandedThreads, otherVars >>

\* the finally block, and the unmount the navigation brings about
LogoutEnds(r) ==
    /\ localStorage' = removeItems(localStorage)
    /\ route' = "/auth"
    /\ mounted' = IF mounted = "ChatLayout" THEN "AuthPage" ELSE mounted
    /\ svc' = IF mounted = "ChatLayout" THEN unmountEffects(svc, currentChannel) ELSE svc
    /\ pending' = pending \ {r}
    /\ UNCHANGED << currentChannel, messages, channels, isLoadingChannel, wire, server,
                    unhandled, input, sent, expandedThreads, budget, threadGroups,
                    http, sidebar >>

\* api.auth.logout resolved
LogoutOk ==
    \E r \in pending :
        /\ r.kind = "logout"
        /\ LogoutEnds(r)
        /\ last' = Step("logoutOk", Null, Null)
        /\ UNCHANGED consoleErrors

\* ChannelBrowser.tsx 365-367: api.auth.logout rejected
LogoutFailed ==
    \E r \in pending :
        /\ r.kind = "logout"
        /\ LogoutEnds(r)
        /\ consoleErrors' = consoleErrors \cup { "Error during logout" }
        /\ last' = Step("logoutFailed", Null, Null)

LogoutNext ==
    \/ Next
    \/ handleLogout
    \/ LogoutOk
    \/ LogoutFailed

SpecLogout == LogoutInit /\ [][LogoutNext]_vars

\* C18: handleLogout ends, whether api.auth.logout succeeded or failed, with
\* token, userId, currentChannel, currentChannelName and currentChannelType
\* removed from localStorage and the router at /auth; a failure is logged
C18_LogoutClearsSession ==
    [][ /\ last'.op \in { "logoutOk", "logoutFailed" } =>
              /\ localStorage' = NoStorage
              /\ route' = "/auth"
              /\ unhandled' = unhandled
        /\ last'.op = "logoutFailed" => "Error during logout" \in consoleErrors'
        /\ last'.op = "logoutOk" => consoleErrors' = consoleErrors
      ]_vars

\* C18: api.auth.logout failed after a channel had been selected and stored,
\* and the handler has ended
C18_Witness ==
    /\ last.op = "logoutFailed"
    /\ currentChannel # Null
    /\ budget.selects < MaxLogouts
    /\ localStorage = NoStorage
    /\ route = "/auth"

-----------------------------------------------------------------------------
(* Sidebar.handleCreateChannel (part_011 94-111) and the create-channel    *)
(* modal (part_011 317-321, 375-413)                                       *)

\* what the user types as a channel name
ChannelNames == { "general" }

\* the messages of the errors api.channels.create rejects with: an ApiError
\* made from the response's `error` field (empty when the field is absent)
\* or the error of axios for a request without response
CreateFailures == { "Channel name already exists", "", "Network Error" }

\* api.ts 112: a channel is created with type 'public' when none is given
PublicChannels == { c \in Channels : ChannelType(c) = "public" }

\* the catch showing the same text for every error
createErrorGeneric(message) == "Failed to create channel"

\* part_011 107: err.message || 'Failed to create channel'
createError(message) == IF message # "" THEN message ELSE "Failed to create channel"

CreateInit ==
    /\ PageOpened
    /\ budget = [ selects |-> 0, sends |-> 0, posts |-> 0, refreshes |-> 0,
                  drops |-> 0, logouts |-> 0, creations |-> MaxCreations ]

\* what no step of the Sidebar changes
SidebarUnchanged ==
    UNCHANGED << localStorage, svc, mounted, currentChannel, messages, channels,
                 isLoadingChannel, wire, server, consoleErrors, unhandled, input,
                 sent, expandedThreads, threadGroups, http, route >>

\* part_011 164-178: fetchWorkspaces resolved and the first workspace became
\* the selected one
WorkspacesLoaded ==
    /\ mounted = "ChatLayout"
    /\ sidebar.selectedWorkspace = "NO_WORKSPACE"
    /\ sidebar' = [ sidebar EXCEPT !.selectedWorkspace = "w1" ]
    /\ last' = Step("workspaces", "w1", Null)
    /\ UNCHANGED << pending, budget >>
    /\ SidebarUnchanged

\* part_011 317-321: the + button
OpenCreateChannel ==
    /\ mounted = "ChatLayout"
    /\ ~sidebar.showCreateChannel
    /\ budget.creations > 0
    /\ sidebar' = [ sidebar EXCEPT !.showCreateChannel = TRUE ]
    /\ last' = Step("openCreate", Null, Null)
    /\ UNCHANGED << pending, budget >>
    /\ SidebarUnchanged

\* part_011 384-387: the input of the modal
TypeChannelName ==
    \E name \in ChannelNames :
        /\ mounted = "ChatLayout"
        /\ sidebar.showCreateChannel
        /\ sidebar.newChannelName # name
        /\ sidebar' = [ sidebar EXCEPT !.newChannelName = name ]
        /\ last' = Step("typeName", name, Null)
        /\ UNCHANGED << pending, budget >>
        /\ SidebarUnchanged

\* part_011 393-402: the Cancel button
CancelCreateChannel ==
    /\ mounted = "ChatLayout"
    /\ sidebar.showCreateChannel
    /\ sidebar' = [ sidebar EXCEPT !.showCreateChannel = FALSE,
                                   !.newChannelName = "", !.error = "" ]
    /\ last' = Step("cancelCreate", Null, Null)
    /\ UNCHANGED << pending, budget >>
    /\ SidebarUnchanged

\* part_011 94-100: the form is submitted (the input is `required`, the
\* submit button disabled while isCreating); the request is made with the
\* selectedWorkspace, and the continuation keeps the fetchChannels and the
\* onChannelSelect of this render
handleCreateChannel ==
    /\ mounted = "ChatLayout"
    /\ sidebar.showCreateChannel
    /\ sidebar.newChannelName # ""
    /\ ~sidebar.isCreating
    /\ budget.creations > 0
    /\ budget' = [ budget EXCEPT !.creations = @ - 1 ]
    /\ sidebar' = [ sidebar EXCEPT !.error = "", !.isCreating = TRUE ]
    /\ pending' = Issue(pending, "create", "create", currentChannel,
                        sidebar.selectedWorkspace, NoThread)
    /\ last' = Step("create", sidebar.newChannelName, sidebar.selectedWorkspace)
    /\ SidebarUnchanged

\* part_011 100-103: api.channels.create resolved with the new channel; the
\* fetchChannels of the submitting render requests the list of its workspace
\* unless that is 'NO_WORKSPACE' (part_011 32)
CreateOk ==
    \E r \in pending : \E channel \in PublicChannels :
        /\ r.kind = "create" /\ r.pc = "create"
        /\ last' = Step("createOk", channel, r.prev)
        /\ IF r.prev # "NO_WORKSPACE"
           THEN /\ sidebar' = [ sidebar EXCEPT !.showCreateChannel = FALSE,
                                               !.newChannelName = "" ]
                /\ pending' = (pending \ {r}) \cup
                                 { [ r EXCEPT !.pc = "fetchChannels", !.chan = channel,
                                              !.prev = r.chan ] }
                /\ UNCHANGED << localStorage, svc, currentChannel, isLoadingChannel >>
           ELSE /\ startChannelSelect(r.chan, channel, pending \ {r})
                /\ sidebar' = [ sidebar EXCEPT !.showCreateChannel = FALSE,
                                               !.newChannelName = "",
                                               !.isCreating = FALSE ]
        /\ UNCHANGED << mounted, messages, channels, wire, server, consoleErrors,
                        unhandled, input, sent, expandedThreads, budget,
                        threadGroups, http, route >>

\* part_011 34-38, 103-110: api.channels.listByWorkspace resolved
FetchChannelsOk ==
    \E r \in pending :
        /\ r.kind = "create" /\ r.pc = "fetchChannels"
        /\ startChannelSelect(r.prev, r.chan, pending \ {r})
        /\ sidebar' = [ sidebar EXCEPT !.isCreating = FALSE ]
        /\ last' = Step("fetchChannelsOk", r.chan, Null)
        /\ UNCHANGED << mounted, messages, channels, wire, server, consoleErrors,
                        unhandled, input, sent, expandedThreads, budget,
                        threadGroups, http, route >>

\* part_011 39-41, 103-110: api.channels.listByWorkspace rejected; fetchChannels
\* logs it and the handler goes on
FetchChannelsFailed ==
    \E r \in pending :
        /\ r.kind = "create" /\ r.pc = "fetchChannels"
        /\ startChannelSelect(r.prev, r.chan, pending \ {r})
        /\ sidebar' = [ sidebar EXCEPT !.isCreating = FALSE ]
        /\ consoleErrors' = consoleErrors \cup { "Failed to fetch channels" }
        /\ last' = Step("fetchChannelsFailed", r.chan, Null)
        /\ UNCHANGED << mounted, messages, channels, wire, server, unhandled, input,
                        sent, expandedThreads, budget, threadGroups, http, route >>

\* part_011 106-110: api.channels.create rejected
CreateFailed ==
    \E r \in pending : \E message \in CreateFailures :
        /\ r.kind = "create" /\ r.pc = "create"
        /\ sidebar' = [ sidebar EXCEPT !.error = createError(message),
                                       !.isCreating = FALSE ]
        /\ pending' = pending \ {r}
        /\ last' = Step("createFailed", message, r.prev)
        /\ UNCHANGED budget
        /\ SidebarUnchanged

CreateNext ==
    \/ Mount
    \/ WorkspacesLoaded
    \/ OpenCreateChannel
    \/ TypeChannelName
    \/ CancelCreateChannel
    \/ handleCreateChannel
    \/ CreateOk
    \/ CreateFailed
    \/ FetchChannelsOk
    \/ FetchChannelsFailed
    \/ SelectMarkPrevOk
    \/ SelectListOk
    \/ SelectMarkNewOk
    \/ SelectFailed
    \/ FetchOk
    \/ FetchFailed

SpecCreate == CreateInit /\ [][CreateNext]_vars

\* a handleChannelSelect call begun by the step
SelectStarted(c) ==
    /\ isLoadingChannel'
    /\ \E r \in pending' \ pending : r.kind = "select" /\ r.chan = c

\* the step issued the list request of fetchChannels
RefetchIssued ==
    \E r \in pending' \ pending : r.kind = "create" /\ r.pc = "fetchChannels"

\* the steps of handleCreateChannel after a failed creation
CreateFailureStep(text) ==
    last'.op = "createFailed" =>
        /\ sidebar'.error = text
        /\ sidebar'.showCreateChannel = sidebar.showCreateChannel
        /\ sidebar'.newChannelName = sidebar.newChannelName
        /\ ~sidebar'.isCreating
        /\ pending' \subseteq pending
        /\ UNCHANGED << localStorage, currentChannel, isLoadingChannel, svc >>

\* the steps of handleCreateChannel after a successful creation, where
\* `refetch` tells whether the list of channels is requested
CreateSuccessSteps(refetch) ==
    /\ last'.op = "createOk" =>
          /\ ~sidebar'.showCreateChannel
          /\ sidebar'.newChannelName = ""
          /\ RefetchIssued <=> refetch
          /\ IF RefetchIssued
             THEN sidebar'.isCreating /\ pending' \ pending \subseteq
                      { r \in pending' : r.kind = "create" }
             ELSE SelectStarted(last'.a) /\ ~sidebar'.isCreating
    /\ last'.op \in { "fetchChannelsOk", "fetchChannelsFailed" } =>
          /\ SelectStarted(last'.a)
          /\ ~sidebar'.isCreating

\* C19 (amended): when api.channels.create fails, handleCreateChannel shows the
\* error's message, or 'Failed to create channel' when that message is empty,
\* leaves the modal and the typed name as they are, selects no channel and
\* requests no channel list; when it succeeds the modal closes and the name is
\* cleared, the channel list is requested unless the selected workspace is
\* 'NO_WORKSPACE', and after that request has ended (well or not) the new
\* channel is selected; isCreating is false when the handler ends
C19_CreateChannelOutcome ==
    [][ /\ CreateFailureStep(IF last'.a # "" THEN last'.a
                                          ELSE "Failed to create channel")
        /\ CreateSuccessSteps(last'.b # "NO_WORKSPACE") ]_vars

\* C19: a creation failed with an error whose message is empty while the
\* modal was open with a name typed
C19_Witness ==
    /\ last.op = "createFailed"
    /\ last.a = ""
    /\ sidebar.error = "Failed to create channel"
    /\ sidebar.showCreateChannel
    /\ sidebar.newChannelName \in ChannelNames
    /\ ~sidebar.isCreating

\* C19 as stated: on failure the error's message is shown, on success the
\* channels are refetched
C19_MessageShownAndRefetched ==
    [][ /\ CreateFailureStep(last'.a)
        /\ CreateSuccessSteps(TRUE) ]_vars

=============================================================================
